---- MODULE Spec2Model ----
(***************************************************************************)
(* socketdb: an in-memory columnar SQL engine (src/table.rs,               *)
(* src/evaluator.rs, src/database.rs) with websocket subscribers           *)
(* (src/main.rs).  The database thread executes one parsed statement at a  *)
(* time; subscribers register through a bounded channel and are notified   *)
(* through bounded per-subscriber channels.                                *)
(***************************************************************************)
EXTENDS Integers, Sequences, FiniteSets, TLC

VARIABLES tables,     \* Database.tables : Vec<Table>
          receiver,   \* the registration channel (String, Sender<String>)
          ws_map,     \* Database.ws_map : HashMap<String, Vec<Sender<String>>>
          chan,       \* per-subscriber channel contents, by handle
          rxAlive,    \* handles whose Receiver (the Ws actor) still exists
          pc,         \* database thread: "idle", "blocked" in send, "aborted"
          pending,    \* sends of the running statement not yet completed
          result,     \* what the last execute returned
          assigned,   \* history: RowIds handed to Column::insert, per table
          offered,    \* history: handles the last statement called send on
          disk,       \* the files written by .persist, by path
          persisted   \* history: tables and assigned when each file was written

vars == <<tables, receiver, ws_map, chan, rxAlive, pc, pending, result,
          assigned, offered, disk, persisted>>

(***************************************************************************)
(* Bounds of the model.                                                    *)
(***************************************************************************)
MaxRowId == 2      \* inserts are enabled while the RowIds they give stay <= MaxRowId
MaxTables == 2     \* CreateTable is enabled while the database holds fewer tables
MaxSubs == 2       \* number of websocket subscribers that may connect
SmallMaxRowId == 0 \* RowId cap of the catalog and notification specifications

ChanCap == 2       \* flume::bounded(2), both channels

None == -1         \* Option<RowId>::None; orders below every Some(r)

(***************************************************************************)
(* Generic helpers.                                                        *)
(***************************************************************************)
Min2(a, b) == IF a <= b THEN a ELSE b

SetMax(S) == CHOOSE x \in S : \A y \in S : y <= x

SetMin(S) == CHOOSE x \in S : \A y \in S : x <= y

Range(s) == {s[i] : i \in DOMAIN s}

RECURSIVE SortedSeq(_)
\* the elements of a finite set of integers in ascending order (BTreeMap iteration order)
SortedSeq(S) == IF S = {} THEN <<>>
                ELSE <<SetMin(S)>> \o SortedSeq(S \ {SetMin(S)})

\* BTreeMap::insert
MapPut(m, k, v) == [x \in (DOMAIN m) \cup {k} |-> IF x = k THEN v ELSE m[x]]

\* BTreeMap::remove
MapRemove(m, k) == [x \in (DOMAIN m) \ {k} |-> m[x]]

EmptyMap == <<>>

(***************************************************************************)
(* str::to_lowercase / str::to_uppercase on the identifiers of the model.  *)
(***************************************************************************)
to_lowercase(s) ==
    CASE s = "T" -> "t"
      [] s = "U" -> "u"
      [] s = "ID" -> "id"
      [] s = "NAME" -> "name"
      [] OTHER -> s

to_uppercase(s) ==
    CASE s = "t" -> "T"
      [] s = "u" -> "U"
      [] s = "id" -> "ID"
      [] s = "name" -> "NAME"
      [] OTHER -> s

(***************************************************************************)
(* Display of values: i32::to_string, bool::to_string, String::to_string.  *)
(***************************************************************************)
Digit(d) == CASE d = 0 -> "0" [] d = 1 -> "1" [] d = 2 -> "2" [] d = 3 -> "3"
              [] d = 4 -> "4" [] d = 5 -> "5" [] d = 6 -> "6" [] d = 7 -> "7"
              [] d = 8 -> "8" [] d = 9 -> "9"

RECURSIVE NatToString(_)
NatToString(n) == IF n < 10 THEN Digit(n)
                  ELSE NatToString(n \div 10) \o Digit(n % 10)

IntToString(n) == IF n < 0 THEN "-" \o NatToString(-n) ELSE NatToString(n)

ValueToString(kind, v) ==
    CASE kind = "Int" -> IntToString(v)
      [] kind = "Bool" -> (IF v THEN "true" ELSE "false")
      [] OTHER -> v

(***************************************************************************)
(* Literals (parser/expression.rs) and column data (table.rs).             *)
(***************************************************************************)
\* a Literal is a tagged value; the fields of the other variants hold defaults
LInt(x) == [kind |-> "Int", i |-> x, s |-> "", b |-> FALSE]
LStr(x) == [kind |-> "Str", i |-> 0, s |-> x, b |-> FALSE]
LBool(x) == [kind |-> "Bool", i |-> 0, s |-> "", b |-> x]
LNull == [kind |-> "Null", i |-> 0, s |-> "", b |-> FALSE]

\* the payload of a non-NULL literal
LitVal(l) == CASE l.kind = "Int" -> l.i [] l.kind = "Str" -> l.s [] l.kind = "Bool" -> l.b

ColumnData(kind, map) == [kind |-> kind, map |-> map]

\* ColumnData::update
ColumnDataUpdate(data, row_id, lit) ==
    IF lit.kind = data.kind
    THEN [ok |-> TRUE, data |-> ColumnData(data.kind, MapPut(data.map, row_id, LitVal(lit)))]
    ELSE [ok |-> FALSE, data |-> data]

\* ColumnData::delete
ColumnDataDelete(data, row_id) == ColumnData(data.kind, MapRemove(data.map, row_id))

\* ColumnData::truncate
ColumnDataTruncate(data) == ColumnData(data.kind, EmptyMap)

\* ColumnData::keys_where_true
keys_where_true(data) ==
    IF data.kind = "Bool"
    THEN [ok |-> TRUE, keys |-> SortedSeq({k \in DOMAIN data.map : data.map[k]})]
    ELSE [ok |-> FALSE, keys |-> <<>>]

\* ColumnData::retain_keys
retain_keys(data, keys) ==
    ColumnData(data.kind, [k \in {x \in DOMAIN data.map : x \in Range(keys)} |-> data.map[k]])

\* ColumnData::len : the largest stored RowId, 0 when empty
DataLen(data) == IF DOMAIN data.map = {} THEN 0 ELSE SetMax(DOMAIN data.map)

\* ColumnData::get_as_string, with unwrap_or_default of the caller
get_as_string(data, id) ==
    IF id \in DOMAIN data.map THEN ValueToString(data.kind, data.map[id]) ELSE ""

\* ColumnData::fill_with_literal
fill_with_literal(lit, till) ==
    IF lit.kind = "Null"
    THEN [ok |-> FALSE, data |-> ColumnData("Null", EmptyMap)]
    ELSE [ok |-> TRUE, data |-> ColumnData(lit.kind, [i \in 0..till |-> LitVal(lit)])]

ColumnInsertMatchFirst(col, row_id, lit) ==
    IF lit.kind = col.data.kind
    THEN [ok |-> TRUE,
          col |-> [header |-> [col.header EXCEPT !.last_row_id = row_id],
                   data |-> ColumnData(col.data.kind, MapPut(col.data.map, row_id, LitVal(lit)))]]
    ELSE [ok |-> FALSE, col |-> col]

\* Column::insert : the header's last_row_id is set before the type is matched
ColumnInsert(col, row_id, lit) ==
    LET hdr == [col.header EXCEPT !.last_row_id = row_id]
    IN  IF lit.kind = col.data.kind
        THEN [ok |-> TRUE,
              col |-> [header |-> hdr,
                       data |-> ColumnData(col.data.kind, MapPut(col.data.map, row_id, LitVal(lit)))]]
        ELSE [ok |-> FALSE, col |-> [header |-> hdr, data |-> col.data]]

(***************************************************************************)
(* Table (table.rs).  A column definition is                                *)
(* [name, data_type, options]; options are the sqlparser ColumnOptions.     *)
(***************************************************************************)
ColumnDef(name, data_type, options) ==
    [name |-> name, data_type |-> data_type, options |-> options]

\* the match on c.data_type of Table::new
DataOfType(data_type) ==
    CASE data_type = "Varchar" -> ColumnData("Str", EmptyMap)
      [] data_type = "Int" -> ColumnData("Int", EmptyMap)
      [] data_type = "Boolean" -> ColumnData("Bool", EmptyMap)

RECURSIVE OptionFlags(_, _, _)
\* the for_each over c.options of Table::new; flags = [is_pk, nullable]
OptionFlags(options, i, flags) ==
    IF i > Len(options) THEN flags
    ELSE OptionFlags(options, i + 1,
            CASE options[i] = "Null" -> [flags EXCEPT !.nullable = TRUE]
              [] options[i] = "NotNull" -> [flags EXCEPT !.nullable = FALSE]
              [] options[i] = "PrimaryKey" -> [is_pk |-> TRUE, nullable |-> FALSE]
              [] options[i] = "Unique" -> [is_pk |-> FALSE, nullable |-> FALSE])

NewColumn(c) ==
    LET flags == OptionFlags(c.options, 1, [is_pk |-> FALSE, nullable |-> TRUE])
        data == DataOfType(c.data_type)
    IN  [header |-> [name |-> c.name, hidden |-> FALSE, datatype |-> data.kind,
                     nullable |-> flags.nullable, is_pk |-> flags.is_pk,
                     last_row_id |-> None],
         data |-> data]

NoPrimaryKeyUnchecked(columns) == FALSE

\* the check of Table::new that panics
NoPrimaryKey(columns) == ~ \E i \in DOMAIN columns : columns[i].header.is_pk

\* Table::new ; panic is TRUE when the constructor panics
TableNew(name, defs) ==
    LET columns == [i \in DOMAIN defs |-> NewColumn(defs[i])]
    IN  [panic |-> NoPrimaryKey(columns),
         table |-> [name |-> name, columns |-> columns, pk_map |-> {}]]

\* Table::last_row_id : the max over the columns' headers (None below Some)
last_row_id(t) ==
    IF Len(t.columns) = 0 THEN None
    ELSE SetMax({t.columns[i].header.last_row_id : i \in DOMAIN t.columns})

next_row_id_reuse(t) ==
    LET ks == UNION {DOMAIN t.columns[i].data.map : i \in DOMAIN t.columns}
    IN  IF ks = {} THEN 0 ELSE SetMax(ks) + 1

\* Table::next_row_id
next_row_id(t) == IF last_row_id(t) = None THEN 0 ELSE last_row_id(t) + 1

\* Table::truncate
TableTruncate(t) ==
    [t EXCEPT !.columns = [i \in DOMAIN t.columns |->
        [t.columns[i] EXCEPT !.data = ColumnDataTruncate(t.columns[i].data)]]]

\* Table::col_from_name : 0 when no column matches
col_from_name(t, name) ==
    LET hits == {i \in DOMAIN t.columns :
                    to_lowercase(t.columns[i].header.name) = to_lowercase(name)}
    IN  IF hits = {} THEN 0 ELSE SetMin(hits)

RECURSIVE InsertCells(_, _, _, _, _, _, _)
\* the loops of Table::insert: row k, literal j, RowId rid; given collects the
\* RowIds handed to Column::insert
InsertCells(columns, cols, data, k, j, rid, given) ==
    IF k > Len(data) THEN [ok |-> TRUE, columns |-> columns, given |-> given]
    ELSE IF j > Min2(Len(cols), Len(data[k]))
         THEN InsertCells(columns, cols, data, k + 1, 1, rid + 1, given)
         ELSE LET r == ColumnInsert(columns[cols[j]], rid, data[k][j])
                  columns2 == [columns EXCEPT ![cols[j]] = r.col]
                  given2 == IF j = 1 THEN Append(given, rid) ELSE given
              IN  IF r.ok
                  THEN InsertCells(columns2, cols, data, k, j + 1, rid, given2)
                  ELSE [ok |-> FALSE, columns |-> columns2, given |-> given2]

\* Table::insert
TableInsert(t, columns, data) ==
    LET names == IF columns = <<>>
                 THEN [i \in DOMAIN t.columns |-> t.columns[i].header.name]
                 ELSE columns
        cols == SortedSeq({i \in DOMAIN t.columns :
                              t.columns[i].header.name \in Range(names)})
        r == InsertCells(t.columns, cols, data, 1, 1, next_row_id(t), <<>>)
    IN  [ok |-> r.ok, err |-> IF r.ok THEN "" ELSE "InvalidQuery",
         table |-> [t EXCEPT !.columns = r.columns], given |-> r.given]

RECURSIVE UpdateRows(_, _, _, _)
\* the inner loop of Table::update over the selected RowIds
UpdateRows(data, selected, i, value) ==
    IF i > Len(selected) THEN [ok |-> TRUE, data |-> data]
    ELSE LET r == ColumnDataUpdate(data, selected[i], value)
         IN  IF r.ok THEN UpdateRows(r.data, selected, i + 1, value)
             ELSE [ok |-> FALSE, data |-> r.data]

\* the key Table::update looks up in the assignments map
AssignmentKey(col) == to_lowercase(col.header.name)

RECURSIVE UpdateCols(_, _, _, _)
\* the outer loop of Table::update over the columns, in definition order
UpdateCols(columns, assignments, selected, i) ==
    IF i > Len(columns) THEN [ok |-> TRUE, err |-> "", columns |-> columns]
    ELSE IF AssignmentKey(columns[i]) \notin DOMAIN assignments
         THEN UpdateCols(columns, assignments, selected, i + 1)
         ELSE IF columns[i].header.is_pk
              THEN [ok |-> FALSE, err |-> "Unsupported", columns |-> columns]
              ELSE LET r == UpdateRows(columns[i].data, selected, 1,
                                       assignments[AssignmentKey(columns[i])])
                       columns2 == [columns EXCEPT ![i].data = r.data]
                   IN  IF r.ok
                       THEN UpdateCols(columns2, assignments, selected, i + 1)
                       ELSE [ok |-> FALSE, err |-> "InvalidOperation",
                             columns |-> columns2]

\* Table::update
TableUpdate(t, assignments, selected) ==
    LET r == UpdateCols(t.columns, assignments, selected, 1)
    IN  [ok |-> r.ok, err |-> r.err, table |-> [t EXCEPT !.columns = r.columns]]

RECURSIVE DeleteRows(_, _, _)
\* col.data.delete(row_id) for each selected RowId, on one column's data
DeleteRows(data, selected, i) ==
    IF i > Len(selected) THEN data
    ELSE DeleteRows(ColumnDataDelete(data, selected[i]), selected, i + 1)

\* Table::delete ; pk_map.remove_by_right drops the pairs of the RowIds
TableDelete(t, selected) ==
    [t EXCEPT !.columns = [i \in DOMAIN t.columns |->
                [t.columns[i] EXCEPT !.data = DeleteRows(@, selected, 1)]],
              !.pk_map = {p \in t.pk_map : p[2] \notin Range(selected)}]

(***************************************************************************)
(* Expressions (parser/expression.rs) and the evaluator (evaluator.rs).    *)
(***************************************************************************)
ELit(l) == [e |-> "Literal", lit |-> l]
EIdent(name) == [e |-> "Ident", id |-> name]
EWildcard == [e |-> "Wildcard"]
EBinary(op, l, r) == [e |-> "Binary", operator |-> op, left |-> l, right |-> r]
EUnary(op, x) == [e |-> "Unary", operator |-> op, expression |-> x]
EIsTrue(x) == [e |-> "IsTrue", expression |-> x]
EIsFalse(x) == [e |-> "IsFalse", expression |-> x]
ENone == [e |-> "None"]

OutColumn(name, data) == [name |-> name, data |-> data]

\* From<Literal> for OutColumn : one cell at RowId 0, named "?column?"
OutColumnOfLiteral(l) == OutColumn("?column?", ColumnData(l.kind, (0 :> LitVal(l))))

\* From<&Column> for OutColumn
OutColumnOfColumn(col) == OutColumn(col.header.name, col.data)

\* From<ColumnData> for OutColumn
OutColumnOfData(data) == OutColumn("?column?", data)

EvalOk(cols) == [st |-> "ok", err |-> "", cols |-> cols]
EvalErr(kind) == [st |-> "err", err |-> kind, cols |-> <<>>]
EvalPanic == [st |-> "panic", err |-> "", cols |-> <<>>]

\* i32 `/` truncates toward zero
TruncDiv(a, b) ==
    LET q == (IF a < 0 THEN -a ELSE a) \div (IF b < 0 THEN -b ELSE b)
    IN  IF (a < 0) = (b < 0) THEN q ELSE -q

BoolLess(a, b) == (~a) /\ b

ValLess(kind, a, b) == IF kind = "Bool" THEN BoolLess(a, b) ELSE a < b

\* left.iter().zip(right).filter(|((lk, _), (rk, _))| lk == rk) : the two maps
\* are paired BY POSITION in ascending key order and a pair survives when its
\* two keys are equal
ZipPairs(lm, rm) ==
    LET lk == SortedSeq(DOMAIN lm)
        rk == SortedSeq(DOMAIN rm)
    IN  {lk[i] : i \in {j \in 1..Min2(Len(lk), Len(rk)) : lk[j] = rk[j]}}

\* the value a binary operator computes from one pair
BinaryValue(op, kind, lv, rv) ==
    CASE op = "Plus" -> (IF kind = "Str" THEN lv \o rv ELSE lv + rv)
      [] op = "Minus" -> lv - rv
      [] op = "Mul" -> lv * rv
      [] op = "Div" -> TruncDiv(lv, rv)
      [] op = "Rem" -> lv - rv * TruncDiv(lv, rv)
      [] op = "Eq" -> lv = rv
      [] op = "NotEq" -> lv # rv
      [] op = "Lt" -> ValLess(kind, lv, rv)
      [] op = "Gt" -> ValLess(kind, rv, lv)
      [] op = "LtEq" -> (ValLess(kind, lv, rv) \/ lv = rv)
      [] op = "GtEq" -> (ValLess(kind, lv, rv) \/ lv = rv)

\* the operators whose result column is Bool
ComparisonOps == {"Eq", "NotEq", "Lt", "Gt", "LtEq", "GtEq"}

\* the (left, right) variant pairs each operator's match accepts
BinaryAccepts(op, lkind, rkind) ==
    /\ lkind = rkind
    /\ CASE op = "Plus" -> lkind \in {"Int", "Str"}
         [] op \in {"Minus", "Mul", "Div", "Rem"} -> lkind = "Int"
         [] op \in {"Eq", "NotEq"} -> lkind \in {"Int", "Bool", "Str"}
         [] OTHER -> lkind \in {"Int", "Bool"}

\* one arm of the match on the operator, given the two operand columns
BinaryApply(op, left, right_data) ==
    IF ~BinaryAccepts(op, left.data.kind, right_data.kind)
    THEN EvalErr("InvalidQuery")
    ELSE LET ks == ZipPairs(left.data.map, right_data.map)
         IN  IF op \in {"Div", "Rem"} /\ \E k \in ks : right_data.map[k] = 0
             THEN EvalPanic
             ELSE EvalOk(<<OutColumn(left.name,
                    ColumnData(IF op \in ComparisonOps THEN "Bool" ELSE left.data.kind,
                        [k \in ks |-> BinaryValue(op, left.data.kind,
                                         left.data.map[k], right_data.map[k])]))>>)

\* the columns of the bound table as OutColumns
TableOutColumns(t) == [i \in DOMAIN t.columns |-> OutColumnOfColumn(t.columns[i])]

\* Expression::IsTrue / Expression::IsFalse ; want is the value kept
EvalIs(table, x, want) ==
    CASE x.e = "Literal" ->
            (IF x.lit.kind = "Bool"
             THEN (IF ~x.lit.b
                   THEN EvalOk(IF table = <<>> THEN <<>> ELSE TableOutColumns(table[1]))
                   ELSE EvalOk(<<>>))
             ELSE EvalErr("InvalidOperation"))
      [] x.e = "Wildcard" -> EvalErr("InvalidOperation")
      [] x.e = "Ident" ->
            (IF table = <<>> THEN EvalErr("InvalidOperation")
             ELSE LET i == col_from_name(table[1], x.id)
                  IN  IF i = 0 THEN EvalErr("ColumnNotFound")
                      ELSE LET d == table[1].columns[i].data
                           IN  IF d.kind = "Bool"
                               THEN EvalOk(<<OutColumnOfData(ColumnData("Bool",
                                       [k \in {y \in DOMAIN d.map : d.map[y] = want}
                                           |-> d.map[k]]))>>)
                               ELSE EvalErr("InvalidOperation"))
      [] OTHER -> EvalErr("Unsupported")

\* Expression::Ident
EvalIdent(table, x) ==
    IF table = <<>> THEN EvalErr("EvaluationError")
    ELSE IF x.e = "Wildcard" THEN EvalOk(TableOutColumns(table[1]))
         ELSE LET i == col_from_name(table[1], x.id)
              IN  IF i = 0 THEN EvalErr("ColumnNotFound")
                  ELSE EvalOk(<<OutColumnOfColumn(table[1].columns[i])>>)

\* Expression::Unary
EvalUnary(table, op, x) ==
    CASE op = "Not" ->
            (CASE x.e = "Literal" ->
                    (IF x.lit.kind = "Bool"
                     THEN EvalOk(<<OutColumnOfLiteral(LBool(~x.lit.b))>>)
                     ELSE EvalPanic)
               [] x.e = "Ident" ->
                    (IF table = <<>> THEN EvalErr("Unsupported")
                     ELSE LET i == col_from_name(table[1], x.id)
                          IN  IF i = 0 THEN EvalPanic
                              ELSE LET d == table[1].columns[i].data
                                   IN  IF d.kind = "Bool"
                                       THEN EvalOk(<<OutColumnOfData(ColumnData("Bool",
                                               [k \in DOMAIN d.map |-> ~d.map[k]]))>>)
                                       ELSE EvalErr("Unsupported"))
               [] OTHER -> EvalPanic)
      [] op = "Plus" ->
            (CASE x.e = "Literal" ->
                    (IF x.lit.kind = "Null" THEN EvalPanic
                     ELSE EvalOk(<<OutColumnOfLiteral(x.lit)>>))
               [] x.e \in {"Ident", "Wildcard"} -> EvalIdent(table, x)
               [] OTHER -> EvalErr("Unsupported"))
      [] op = "Minus" ->
            (CASE x.e = "Literal" ->
                    (CASE x.lit.kind = "Int" ->
                            EvalOk(<<OutColumnOfLiteral(LInt(-x.lit.i))>>)
                       [] x.lit.kind = "Null" -> EvalPanic
                       [] OTHER -> EvalErr("Unsupported"))
               [] x.e \in {"Ident", "Wildcard"} ->
                    (LET r == EvalIdent(table, x)
                     IN  IF r.st # "ok" THEN r
                         ELSE IF \E i \in DOMAIN r.cols : r.cols[i].data.kind # "Int"
                              THEN EvalErr("Unsupported")
                              ELSE EvalOk([i \in DOMAIN r.cols |->
                                    OutColumn(r.cols[i].name, ColumnData("Int",
                                        [k \in DOMAIN r.cols[i].data.map |->
                                            -r.cols[i].data.map[k]]))]))
               [] OTHER -> EvalErr("Unsupported"))

RECURSIVE Eval(_, _)
\* Evaluator::eval ; table is <<>> (None) or <<t>> (Some(t))
Eval(table, x) ==
    CASE x.e = "Literal" ->
            (IF x.lit.kind = "Null" THEN EvalOk(<<>>)
             ELSE EvalOk(<<OutColumnOfLiteral(x.lit)>>))
      [] x.e \in {"Ident", "Wildcard"} -> EvalIdent(table, x)
      [] x.e = "IsFalse" -> EvalIs(table, x.expression, FALSE)
      [] x.e = "IsTrue" -> EvalIs(table, x.expression, TRUE)
      [] x.e = "Unary" -> EvalUnary(table, x.operator, x.expression)
      [] x.e = "Binary" ->
            (LET l == Eval(table, x.left)
             IN  IF l.st # "ok" THEN l
                 ELSE LET r == Eval(table, x.right)
                      IN  IF r.st # "ok" THEN r
                          ELSE IF Len(l.cols) # 1 \/ Len(r.cols) # 1
                               THEN EvalErr("InvalidQuery")
                               ELSE IF x.operator \in ComparisonOps /\ x.right.e = "Literal"
                                    THEN LET f == fill_with_literal(x.right.lit,
                                                        DataLen(l.cols[1].data))
                                         IN  IF f.ok
                                             THEN BinaryApply(x.operator, l.cols[1], f.data)
                                             ELSE EvalErr("InvalidOperation")
                                    ELSE BinaryApply(x.operator, l.cols[1], r.cols[1].data))
      [] x.e = "None" -> EvalErr("InvalidOperation")
      [] OTHER -> EvalErr("Unsupported")

(***************************************************************************)
(* View (database.rs).                                                     *)
(***************************************************************************)
ViewNewKeepsEmptyRows(cols) ==
    LET max_rows == IF Len(cols) = 0 THEN 0
                    ELSE SetMax({DataLen(cols[i].data) : i \in DOMAIN cols})
        row(r) == [i \in DOMAIN cols |-> get_as_string(cols[i].data, r)]
        ids == SortedSeq(0..max_rows)
    IN  [columns |-> [i \in DOMAIN cols |-> cols[i].name],
         rows |-> [n \in DOMAIN ids |-> row(ids[n])]]

\* View::new
ViewNew(cols) ==
    LET max_rows == IF Len(cols) = 0 THEN 0
                    ELSE SetMax({DataLen(cols[i].data) : i \in DOMAIN cols})
        row(r) == [i \in DOMAIN cols |-> get_as_string(cols[i].data, r)]
        shown == {r \in 0..max_rows : \E i \in DOMAIN cols : row(r)[i] # ""}
        ids == SortedSeq(shown)
    IN  [columns |-> [i \in DOMAIN cols |-> cols[i].name],
         rows |-> [n \in DOMAIN ids |-> row(ids[n])]]

NoView == [columns |-> <<>>, rows |-> <<>>]

\* the View of the whole table that Insert, Update and Delete send
TableView(t) == ViewNew(TableOutColumns(t))

(***************************************************************************)
(* Database (database.rs): results, table lookup, registrations, sends.    *)
(***************************************************************************)
\* what execute returned, with the kind of the statement it was given:
\* Ok(None), Ok(Some(view)), Err(kind), or a panic
ResOk(stmt) == [stmt |-> stmt, st |-> "ok", err |-> "", view |-> NoView]
ResView(stmt, v) == [stmt |-> stmt, st |-> "view", err |-> "", view |-> v]
ResErr(stmt, kind) == [stmt |-> stmt, st |-> "err", err |-> kind, view |-> NoView]
ResPanic(stmt) == [stmt |-> stmt, st |-> "panic", err |-> "", view |-> NoView]

NameMatchExact(a, b) == a = b

\* t.name.to_lowercase() == name.to_lowercase()
NameMatch(a, b) == to_lowercase(a) = to_lowercase(b)

\* self.tables.iter().find(...) : index of the first match, 0 when none
FindTable(tbls, name) ==
    LET hits == {i \in DOMAIN tbls : NameMatch(tbls[i].name, name)}
    IN  IF hits = {} THEN 0 ELSE SetMin(hits)

\* Database::recv_senders : at most ONE pending registration is taken
recv_senders ==
    IF receiver = <<>> THEN [receiver |-> receiver, ws_map |-> ws_map]
    ELSE LET reg == Head(receiver)
         IN  [receiver |-> Tail(receiver),
              ws_map |-> IF reg.table \in DOMAIN ws_map
                         THEN [ws_map EXCEPT ![reg.table] = Append(@, reg.tx)]
                         ELSE (reg.table :> <<reg.tx>>) @@ ws_map]

\* self.ws_map.get(&tbl.name.to_lowercase()) on the map wm : the senders, or none
Subscribers(wm, tbl_name) ==
    IF to_lowercase(tbl_name) \in DOMAIN wm THEN wm[to_lowercase(tbl_name)] ELSE <<>>

RECURSIVE SendAll(_, _, _, _, _)
\* for tx in txs { _ = tx.send(msg) } : Sender::send on a bounded channel
\* returns Err when the receiver is gone (swallowed), enqueues when there is
\* room, and otherwise blocks the calling thread
SendAll(ch, txs, i, msg, done) ==
    IF i > Len(txs) THEN [chan |-> ch, rest |-> <<>>, done |-> done]
    ELSE IF txs[i] \notin rxAlive
         THEN SendAll(ch, txs, i + 1, msg, Append(done, txs[i]))
         ELSE IF Len(ch[txs[i]]) < ChanCap
              THEN SendAll([ch EXCEPT ![txs[i]] = Append(@, msg)], txs, i + 1, msg,
                           Append(done, txs[i]))
              ELSE [chan |-> ch, rest |-> SubSeq(txs, i, Len(txs)), done |-> done]

NoMsg == [kind |-> "", table |-> "", view |-> NoView]

Msg(kind, table, view) == [kind |-> kind, table |-> table, view |-> view]

NoPending == [txs |-> <<>>, msg |-> NoMsg]

\* the common tail of a statement that notifies txs with msg and returns Ok(None)
Notify(txs, msg) ==
    LET s == SendAll(chan, txs, 1, msg, <<>>)
    IN  /\ chan' = s.chan
        /\ offered' = s.done
        /\ pending' = IF s.rest = <<>> THEN NoPending ELSE [txs |-> s.rest, msg |-> msg]
        /\ pc' = IF s.rest = <<>> THEN "idle" ELSE "blocked"

\* the common tail of a statement that sends nothing
NoNotify ==
    /\ offered' = <<>>
    /\ UNCHANGED <<chan, pending, pc>>

\* every statement starts with self.recv_senders()?
TakeRegistration ==
    /\ receiver' = recv_senders.receiver
    /\ ws_map' = recv_senders.ws_map

\* a statement that returns Err(kind) without having changed a table
Fail(stmt, kind) ==
    /\ result' = ResErr(stmt, kind)
    /\ NoNotify
    /\ UNCHANGED <<tables, assigned>>

\* a panic unwinds the database thread: no later statement is executed
Abort(stmt) ==
    /\ result' = ResPanic(stmt)
    /\ pc' = "aborted"
    /\ offered' = <<>>
    /\ UNCHANGED <<tables, assigned, chan, pending>>

\* replace table i and its history entry
SetTable(i, t) == tables' = [tables EXCEPT ![i] = t]

(***************************************************************************)
(* Database::execute, one action per statement kind.                       *)
(***************************************************************************)
\* Query::CreateTable
CreateTable(name, columns) ==
    /\ pc = "idle"
    /\ TakeRegistration
    /\ UNCHANGED <<rxAlive, disk, persisted>>
    /\ IF \E i \in DOMAIN tables : NameMatch(tables[i].name, name)
       THEN Fail("CreateTable", "TableAlreadyExists")
       ELSE LET n == TableNew(to_uppercase(name), columns)
            IN  IF n.panic THEN Abort("CreateTable")
                ELSE /\ tables' = Append(tables, n.table)
                     /\ assigned' = (n.table.name :> <<>>) @@ assigned
                     /\ result' = ResOk("CreateTable")
                     /\ NoNotify

\* Query::Truncate
Truncate(tbl_name) ==
    /\ pc = "idle"
    /\ TakeRegistration
    /\ UNCHANGED <<rxAlive, disk, persisted>>
    /\ LET i == FindTable(tables, tbl_name)
       IN  IF i = 0 THEN Fail("Truncate", "TableNotFound")
           ELSE /\ SetTable(i, TableTruncate(tables[i]))
                /\ UNCHANGED assigned
                /\ result' = ResOk("Truncate")
                /\ Notify(Subscribers(recv_senders.ws_map, tables[i].name),
                          Msg("truncated", tbl_name, NoView))

RECURSIVE EvalAll(_, _, _, _)
\* for e in exprs { out.extend(Evaluator::eval(table, e)?) }, skipping Expression::None
\* when skip is set
EvalAll(table, exprs, skip, acc) ==
    IF exprs = <<>> THEN EvalOk(acc)
    ELSE IF skip /\ Head(exprs).e = "None" THEN EvalAll(table, Tail(exprs), skip, acc)
         ELSE LET r == Eval(table, Head(exprs))
              IN  IF r.st # "ok" THEN r
                  ELSE EvalAll(table, Tail(exprs), skip, acc \o r.cols)

SelectFilterSelectionMajor(projected, selected) ==
    LET P == Len(projected)
    IN  [n \in 1..(P * Len(selected)) |->
            LET p == projected[((n - 1) % P) + 1]
                sel == selected[((n - 1) \div P) + 1]
            IN  OutColumn(p.name, retain_keys(p.data, keys_where_true(sel.data).keys))]

\* the filtering of Query::Select : projection-major pairs (p, s)
SelectFilter(projected, selected) ==
    LET S == Len(selected)
    IN  [n \in 1..(Len(projected) * S) |->
            LET p == projected[((n - 1) \div S) + 1]
                sel == selected[((n - 1) % S) + 1]
            IN  OutColumn(p.name, retain_keys(p.data, keys_where_true(sel.data).keys))]

\* Query::Select ; from is <<>> or <<name>>
Select(from, projection, selection) ==
    /\ pc = "idle"
    /\ TakeRegistration
    /\ UNCHANGED <<rxAlive, disk, persisted>>
    /\ LET i == IF from = <<>> THEN 0 ELSE FindTable(tables, from[1])
           table == IF i = 0 THEN <<>> ELSE <<tables[i]>>
           sel == EvalAll(table, selection, TRUE, <<>>)
           proj == EvalAll(table, projection, FALSE, <<>>)
       IN  CASE sel.st = "panic" -> Abort("Select")
             [] sel.st = "err" -> Fail("Select", sel.err)
             [] proj.st = "panic" -> Abort("Select")
             [] proj.st = "err" -> Fail("Select", proj.err)
             [] OTHER ->
                  IF sel.cols = <<>>
                  THEN /\ result' = ResView("Select", ViewNew(proj.cols))
                       /\ NoNotify
                       /\ UNCHANGED <<tables, assigned>>
                  ELSE IF proj.cols # <<>>
                          /\ \E k \in DOMAIN sel.cols : sel.cols[k].data.kind # "Bool"
                       THEN Abort("Select")
                       ELSE /\ result' = ResView("Select", ViewNew(SelectFilter(proj.cols, sel.cols)))
                            /\ NoNotify
                            /\ UNCHANGED <<tables, assigned>>

\* Query::Insert
Insert(table, columns, sources) ==
    /\ pc = "idle"
    /\ TakeRegistration
    /\ UNCHANGED <<rxAlive, disk, persisted>>
    /\ LET i == FindTable(tables, table)
       IN  IF i = 0 THEN Fail("Insert", "TableNotFound")
           ELSE LET r == TableInsert(tables[i], columns, sources)
                IN  /\ SetTable(i, r.table)
                    /\ assigned' = [assigned EXCEPT ![tables[i].name] = @ \o r.given]
                    /\ IF r.ok
                       THEN /\ result' = ResOk("Insert")
                            /\ Notify(Subscribers(recv_senders.ws_map, tables[i].name),
                                      Msg("updated", tables[i].name, TableView(r.table)))
                       ELSE /\ result' = ResErr("Insert", r.err)
                            /\ NoNotify

DropExact(table) ==
    /\ pc = "idle"
    /\ TakeRegistration
    /\ UNCHANGED <<rxAlive, disk, persisted>>
    /\ tables' = SelectSeq(tables, LAMBDA t : t.name # table)
    /\ assigned' = [n \in {tables'[i].name : i \in DOMAIN tables'} |-> assigned[n]]
    /\ result' = ResOk("Drop")
    /\ NoNotify

\* Query::Drop
Drop(table) ==
    /\ pc = "idle"
    /\ TakeRegistration
    /\ UNCHANGED <<rxAlive, disk, persisted>>
    /\ tables' = SelectSeq(tables, LAMBDA t : ~NameMatch(t.name, table))
    /\ assigned' = [n \in {tables'[i].name : i \in DOMAIN tables'} |-> assigned[n]]
    /\ result' = ResOk("Drop")
    /\ NoNotify

SelectedRowsFirstColumn(t, selection) ==
    LET r == Eval(<<t>>, selection)
    IN  CASE r.st = "panic" -> [st |-> "panic", err |-> "", keys |-> <<>>]
          [] r.st = "err" -> [st |-> "err", err |-> r.err, keys |-> <<>>]
          [] Len(r.cols) = 0 -> [st |-> "ok", err |-> "", keys |-> <<>>]
          [] OTHER ->
               LET k == keys_where_true(r.cols[1].data)
               IN  IF k.ok THEN [st |-> "ok", err |-> "", keys |-> k.keys]
                   ELSE [st |-> "err", err |-> "InvalidOperation", keys |-> <<>>]

\* the selection handling shared by Update and Delete: evaluate, require one
\* column, take the RowIds where it is true
SelectedRows(t, selection) ==
    LET r == Eval(<<t>>, selection)
    IN  CASE r.st = "panic" -> [st |-> "panic", err |-> "", keys |-> <<>>]
          [] r.st = "err" -> [st |-> "err", err |-> r.err, keys |-> <<>>]
          [] Len(r.cols) # 1 -> [st |-> "err", err |-> "InvalidOperation", keys |-> <<>>]
          [] OTHER ->
               LET k == keys_where_true(r.cols[1].data)
               IN  IF k.ok THEN [st |-> "ok", err |-> "", keys |-> k.keys]
                   ELSE [st |-> "err", err |-> "InvalidOperation", keys |-> <<>>]

UpdateSelectionFirst(table, assignments, selection) ==
    /\ pc = "idle"
    /\ TakeRegistration
    /\ UNCHANGED <<rxAlive, disk, persisted>>
    /\ IF selection = <<>> THEN Fail("Update", "Unsupported")
       ELSE IF FindTable(tables, table) = 0 THEN Fail("Update", "TableNotFound")
       ELSE Fail("Update", "InvalidOperation")

\* Query::Update ; selection is <<>> (None) or <<expr>>
Update(table, assignments, selection) ==
    /\ pc = "idle"
    /\ TakeRegistration
    /\ UNCHANGED <<rxAlive, disk, persisted>>
    /\ LET i == FindTable(tables, table)
       IN  IF i = 0 THEN Fail("Update", "TableNotFound")
           ELSE IF selection = <<>> THEN Fail("Update", "Unsupported")
           ELSE LET s == SelectedRows(tables[i], selection[1])
                IN  CASE s.st = "panic" -> Abort("Update")
                      [] s.st = "err" -> Fail("Update", s.err)
                      [] OTHER ->
                           LET r == TableUpdate(tables[i], assignments, s.keys)
                           IN  /\ SetTable(i, r.table)
                               /\ UNCHANGED assigned
                               /\ IF r.ok
                                  THEN /\ result' = ResOk("Update")
                                       /\ Notify(Subscribers(recv_senders.ws_map, tables[i].name),
                                                 Msg("updated", tables[i].name,
                                                     TableView(r.table)))
                                  ELSE /\ result' = ResErr("Update", r.err)
                                       /\ NoNotify

\* Query::Delete ; selection is <<>> (None) or <<expr>>
Delete(table, selection) ==
    /\ pc = "idle"
    /\ TakeRegistration
    /\ UNCHANGED <<rxAlive, disk, persisted>>
    /\ LET i == FindTable(tables, table)
       IN  IF i = 0 THEN Fail("Delete", "TableNotFound")
           ELSE IF selection = <<>>
                THEN /\ SetTable(i, TableTruncate(tables[i]))
                     /\ UNCHANGED assigned
                     /\ result' = ResOk("Delete")
                     /\ NoNotify
                ELSE LET s == SelectedRows(tables[i], selection[1])
                     IN  CASE s.st = "panic" -> Abort("Delete")
                           [] s.st = "err" -> Fail("Delete", s.err)
                           [] OTHER ->
                                LET t2 == TableDelete(tables[i], s.keys)
                                IN  /\ SetTable(i, t2)
                                    /\ UNCHANGED assigned
                                    /\ result' = ResOk("Delete")
                                    /\ Notify(Subscribers(recv_senders.ws_map, tables[i].name),
                                              Msg("deleted", tables[i].name, TableView(t2)))

\* a send that was blocked on a full channel goes on when the subscriber has
\* taken a message or has gone
SendResume ==
    /\ pc = "blocked"
    /\ \/ Head(pending.txs) \notin rxAlive
       \/ Len(chan[Head(pending.txs)]) < ChanCap
    /\ LET s == SendAll(chan, pending.txs, 1, pending.msg, <<>>)
       IN  /\ chan' = s.chan
           /\ offered' = offered \o s.done
           /\ pending' = IF s.rest = <<>> THEN NoPending
                         ELSE [txs |-> s.rest, msg |-> pending.msg]
           /\ pc' = IF s.rest = <<>> THEN "idle" ELSE "blocked"
    /\ UNCHANGED <<tables, receiver, ws_map, rxAlive, result, assigned, disk, persisted>>

(***************************************************************************)
(* The websocket side (main.rs).                                           *)
(***************************************************************************)
\* index : a client connects for `table`; its registration is sent on the
\* bounded registration channel and its Ws actor is started
Subscribe(table) ==
    /\ pc # "aborted"
    /\ Cardinality(DOMAIN chan) < MaxSubs
    /\ Len(receiver) < ChanCap
    /\ LET h == Cardinality(DOMAIN chan) + 1
       IN  /\ receiver' = Append(receiver, [table |-> table, tx |-> h])
           /\ chan' = (h :> <<>>) @@ chan
           /\ rxAlive' = rxAlive \cup {h}
    /\ UNCHANGED <<tables, ws_map, pc, pending, result, assigned, offered, disk, persisted>>

\* Ws::started, the run_interval closure : one try_recv per tick
WsTick(h) ==
    /\ h \in rxAlive
    /\ chan[h] # <<>>
    /\ chan' = [chan EXCEPT ![h] = Tail(@)]
    /\ UNCHANGED <<tables, receiver, ws_map, rxAlive, pc, pending, result, assigned, offered,
                   disk, persisted>>

\* the Ws actor stops (ctx.stop() after an hour, or the connection ends) and
\* its Receiver is dropped with whatever it still held
WsStop(h) ==
    /\ h \in rxAlive
    /\ rxAlive' = rxAlive \ {h}
    /\ chan' = [chan EXCEPT ![h] = <<>>]
    /\ UNCHANGED <<tables, receiver, ws_map, pc, pending, result, assigned, offered,
                   disk, persisted>>

(***************************************************************************)
(* Meta commands (database.rs): .persist writes the database as JSON,      *)
(* .restore reads it back and replaces the tables.                         *)
(***************************************************************************)
\* usize::from_str on the key of a JSON object
ParseNat(s) == CHOOSE n \in 0..(MaxRowId + 1) : NatToString(n) = s

\* Option<RowId> as JSON: null (no element) or the number
OptionToJson(o) == IF o = None THEN <<>> ELSE <<o>>

OptionFromJson(j) == IF j = <<>> THEN None ELSE j[1]

\* ColumnData as JSON: the variant tag and an object whose members, in key
\* order, have the RowId written as a string for key
DataToJson(d) ==
    LET ks == SortedSeq(DOMAIN d.map)
    IN  [variant |-> d.kind,
         object |-> [n \in DOMAIN ks |->
                       [key |-> NatToString(ks[n]), value |-> d.map[ks[n]]]]]

DataFromJson(j) ==
    ColumnData(j.variant,
        [k \in {ParseNat(j.object[n].key) : n \in DOMAIN j.object} |->
            j.object[CHOOSE n \in DOMAIN j.object : ParseNat(j.object[n].key) = k].value])

HeaderToJsonNoWatermark(h) == [h EXCEPT !.last_row_id = <<>>]

\* ColumnHeader as JSON: every field is serialized
HeaderToJson(h) == [h EXCEPT !.last_row_id = OptionToJson(@)]

HeaderFromJson(j) == [j EXCEPT !.last_row_id = OptionFromJson(@)]

\* Table as JSON (the PrimaryKeyIndex is written as a map of its pairs)
TableToJson(t) ==
    [name |-> t.name,
     columns |-> [i \in DOMAIN t.columns |->
                    [header |-> HeaderToJson(t.columns[i].header),
                     data |-> DataToJson(t.columns[i].data)]],
     pk_map |-> t.pk_map]

TableFromJson(j) ==
    [name |-> j.name,
     columns |-> [i \in DOMAIN j.columns |->
                    [header |-> HeaderFromJson(j.columns[i].header),
                     data |-> DataFromJson(j.columns[i].data)]],
     pk_map |-> j.pk_map]

\* serde_json::to_string(&self) : receiver and ws_map are #[serde(skip)]
to_json(tbls) == [i \in DOMAIN tbls |-> TableToJson(tbls[i])]

\* serde_json::from_slice : the tables of the decoded Database
from_json(j) == [i \in DOMAIN j |-> TableFromJson(j[i])]

\* MetaCommand::Persist(path) ; execute_all does not call recv_senders for it
Persist(path) ==
    /\ pc = "idle"
    /\ disk' = (path :> to_json(tables)) @@ disk
    /\ persisted' = (path :> [tables |-> tables, assigned |-> assigned]) @@ persisted
    /\ result' = ResOk("Persist")
    /\ offered' = <<>>
    /\ UNCHANGED <<tables, receiver, ws_map, chan, rxAlive, pc, pending, assigned>>

\* MetaCommand::Restore(path) : File::open(path).expect(..) panics when the
\* file does not exist; otherwise self.tables = db.tables
Restore(path) ==
    /\ pc = "idle"
    /\ offered' = <<>>
    /\ UNCHANGED <<receiver, ws_map, chan, rxAlive, pending, disk, persisted>>
    /\ IF path \notin DOMAIN disk
       THEN /\ result' = ResPanic("Restore")
            /\ pc' = "aborted"
            /\ UNCHANGED <<tables, assigned>>
       ELSE /\ tables' = from_json(disk[path])
            /\ assigned' = persisted[path].assigned
            /\ result' = ResOk("Restore")
            /\ pc' = pc

\* Database::new, before any statement or connection
Init ==
    /\ tables = <<>>
    /\ receiver = <<>>
    /\ ws_map = <<>>
    /\ chan = <<>>
    /\ rxAlive = {}
    /\ pc = "idle"
    /\ pending = NoPending
    /\ result = ResOk("")
    /\ assigned = <<>>
    /\ offered = <<>>
    /\ disk = <<>>
    /\ persisted = <<>>

(***************************************************************************)
(* Statements fed to execute.                                              *)
(***************************************************************************)
\* CREATE TABLE t (id INT PRIMARY KEY, name VARCHAR)
SchemaIdName == <<ColumnDef("id", "Int", <<"PrimaryKey">>), ColumnDef("name", "Varchar", <<>>)>>
\* CREATE TABLE t (name VARCHAR, id INT PRIMARY KEY)
SchemaNameId == <<ColumnDef("name", "Varchar", <<>>), ColumnDef("id", "Int", <<"PrimaryKey">>)>>
\* CREATE TABLE t (name VARCHAR PRIMARY KEY)
SchemaName == <<ColumnDef("name", "Varchar", <<"PrimaryKey">>)>>
\* CREATE TABLE t (id INT, name VARCHAR NOT NULL)
SchemaNoPk == <<ColumnDef("id", "Int", <<>>), ColumnDef("name", "Varchar", <<"NotNull">>)>>

StoreSchemas == {SchemaIdName, SchemaNameId, SchemaName}

\* VALUES lists
StoreSources ==
    {<<<<LInt(i), LStr(x)>>>> : i \in {1, 2}, x \in {"a", "b"}}
    \cup {<<<<LInt(1), LStr("a")>>, <<LInt(2), LStr("b")>>>>}
    \cup {<<<<LStr(x), LInt(i)>>>> : i \in {1, 2}, x \in {"a"}}
    \cup {<<<<LStr("")>>>>, <<<<LStr("a")>>>>, <<<<LStr("")>>, <<LStr("a")>>>>}

\* WHERE clauses
PkEq(v) == EBinary("Eq", EIdent("id"), ELit(LInt(v)))

StoreSelections ==
    {PkEq(1), PkEq(2),
     EBinary("Eq", EIdent("id"), EIdent("id")),
     EBinary("Eq", ELit(LInt(1)), ELit(LInt(1)))}

\* SET lists
StoreAssignments ==
    {("name" :> LStr("b")), ("NAME" :> LStr("b")), ("id" :> LInt(2)),
     ("name" :> LStr("a") @@ "id" :> LInt(1))}

\* the guard that keeps the RowIds an insert hands out within cap
InsertWithin(table, sources, cap) ==
    LET i == FindTable(tables, table)
    IN  i # 0 => next_row_id(tables[i]) + Len(sources) - 1 <= cap

CanCreate == Len(tables) < MaxTables

Next ==
    \/ \E c \in StoreSchemas : CanCreate /\ CreateTable("t", c)
    \/ \E d \in StoreSources : InsertWithin("t", d, MaxRowId) /\ Insert("t", <<>>, d)
    \/ \E n \in {"name", "NAME"} :
          /\ InsertWithin("t", <<<<LStr("a")>>>>, MaxRowId)
          /\ Insert("t", <<n>>, <<<<LStr("a")>>>>)
    \/ \E a \in StoreAssignments, w \in StoreSelections : Update("t", a, <<w>>)
    \/ Update("t", ("name" :> LStr("b")), <<>>)
    \/ \E w \in StoreSelections : Delete("T", <<w>>)
    \/ Delete("t", <<>>)
    \/ Truncate("t")
    \/ Select(<<"t">>, <<EWildcard>>, <<ENone>>)
    \/ Drop("t")

Spec == Init /\ [][Next]_vars

(***************************************************************************)
(* Inserts and filtered deletes only, on a table with an Int32 primary key. *)
(***************************************************************************)
InsDelSources ==
    {<<<<LInt(i), LStr("a")>>>> : i \in {1, 2}}
    \cup {<<<<LInt(1), LStr("a")>>, <<LInt(2), LStr("b")>>>>}

NextInsDel ==
    \/ CanCreate /\ CreateTable("t", SchemaIdName)
    \/ \E d \in InsDelSources :
          InsertWithin("t", d, MaxRowId) /\ Insert("t", <<>>, d)
    \/ \E v \in {1, 2} : Delete("t", <<PkEq(v)>>)

SpecInsDel == Init /\ [][NextInsDel]_vars

(***************************************************************************)
(* The catalog: tables created and dropped under names in either case.     *)
(***************************************************************************)
CatalogNames == {"t", "T", "u"}

OneRow == <<<<LInt(1), LStr("a")>>>>

NextCatalog ==
    \/ \E n \in CatalogNames, c \in {SchemaIdName, SchemaNoPk} :
          CanCreate /\ CreateTable(n, c)
    \/ \E n \in CatalogNames :
          InsertWithin(n, OneRow, MaxRowId) /\ Insert(n, <<>>, OneRow)
    \/ \E n \in CatalogNames : Truncate(n)
    \/ \E n \in CatalogNames : Drop(n)

SpecCatalog == Init /\ [][NextCatalog]_vars

(***************************************************************************)
(* Subscribers: registrations, notifications, and the database thread      *)
(* blocked in a send.                                                      *)
(***************************************************************************)
SubscribedNames == {"t", "u"}

NextNotify ==
    \/ \E n \in SubscribedNames : Subscribe(n)
    \/ \E h \in DOMAIN chan : WsTick(h)
    \/ \E h \in DOMAIN chan : WsStop(h)
    \/ CanCreate /\ CreateTable("t", SchemaIdName)
    \/ InsertWithin("t", OneRow, SmallMaxRowId) /\ Insert("t", <<>>, OneRow)
    \/ Update("t", ("name" :> LStr("a")), <<PkEq(1)>>)
    \/ Delete("t", <<PkEq(1)>>)
    \/ Delete("t", <<>>)
    \/ Truncate("t")
    \/ SendResume

SpecNotify == Init /\ [][NextNotify]_vars

\* the table path parameter and the CREATE TABLE name in either letter case
CaseNames == {"t", "T"}

NextNotifyCase ==
    \/ \E n \in CaseNames : Subscribe(n)
    \/ \E h \in DOMAIN chan : WsTick(h)
    \/ \E n \in CaseNames : CanCreate /\ CreateTable(n, SchemaIdName)
    \/ \E n \in CaseNames :
          InsertWithin(n, OneRow, SmallMaxRowId) /\ Insert(n, <<>>, OneRow)
    \/ \E n \in CaseNames : Truncate(n)
    \/ Drop("t")
    \/ SendResume

SpecNotifyCase == Init /\ [][NextNotifyCase]_vars

(***************************************************************************)
(* Expressions: statements whose projection or selection exercises the     *)
(* evaluator on a table with an Int32 primary key, dense or sparse.         *)
(***************************************************************************)
\* id <op> c
Cmp(op, c) == EBinary(op, EIdent("id"), ELit(LInt(c)))

\* expressions on which the evaluator, or the statement that uses them as a
\* selection, has no error arm
UntypedSelections ==
    {EIdent("id"),
     EUnary("Not", ELit(LInt(1))),
     EUnary("Not", EIdent("zzz")),
     EUnary("Minus", ELit(LNull)),
     EBinary("Div", EIdent("id"), ELit(LInt(0))),
     EBinary("Rem", EIdent("id"), ELit(LInt(0)))}

EvalProjections ==
    {Cmp(op, c) : op \in ComparisonOps, c \in {1, 2}}
    \cup {EBinary("Plus", EIdent("id"), EIdent("id")),
          EBinary("Plus", EIdent("id"), ELit(LInt(1)))}

\* the rows that give the id column {0:1, 1:2, 2:5} in a fresh table
ExampleRows == <<<<LInt(1), LStr("a")>>, <<LInt(2), LStr("b")>>, <<LInt(5), LStr("c")>>>>

NextEval ==
    \/ CanCreate /\ CreateTable("t", SchemaIdName)
    \/ \E d \in InsDelSources \cup {ExampleRows} :
          InsertWithin("t", d, MaxRowId) /\ Insert("t", <<>>, d)
    \/ \E v \in {1, 2} : Delete("t", <<PkEq(v)>>)
    \/ \E x \in EvalProjections : Select(<<"t">>, <<x>>, <<ENone>>)
    \/ \E w \in UntypedSelections : Select(<<"t">>, <<EWildcard>>, <<w>>)
    \/ \E w \in UntypedSelections : Delete("t", <<w>>)
    \/ \E w \in UntypedSelections : Update("t", ("name" :> LStr("b")), <<w>>)

SpecEval == Init /\ [][NextEval]_vars

(***************************************************************************)
(* Snapshots: statements interleaved with .persist and .restore.           *)
(***************************************************************************)
Paths == {"a.db", "b.db"}

NextPersist ==
    \/ CanCreate /\ CreateTable("t", SchemaIdName)
    \/ \E d \in InsDelSources :
          InsertWithin("t", d, SmallMaxRowId + 1) /\ Insert("t", <<>>, d)
    \/ \E v \in {1, 2} : Delete("t", <<PkEq(v)>>)
    \/ Truncate("t")
    \/ Drop("t")
    \/ \E p \in Paths : Persist(p)
    \/ \E p \in Paths : Restore(p)

SpecPersist == Init /\ [][NextPersist]_vars

(***************************************************************************)
(* Inserts that name their columns, in either order and in part.           *)
(***************************************************************************)
\* INSERT INTO t (columns) VALUES sources
ListedInserts ==
    {[columns |-> <<"id", "name">>, sources |-> <<<<LInt(1), LStr("a")>>>>],
     [columns |-> <<"name", "id">>, sources |-> <<<<LStr("a"), LInt(1)>>>>],
     [columns |-> <<"name", "id">>,
      sources |-> <<<<LStr("a"), LInt(1)>>, <<LStr("b"), LInt(2)>>>>],
     [columns |-> <<"name">>, sources |-> <<<<LStr("b")>>>>],
     [columns |-> <<"id">>, sources |-> <<<<LInt(2)>>>>]}

NextColumns ==
    \/ \E c \in {SchemaIdName, SchemaNameId} : CanCreate /\ CreateTable("t", c)
    \/ \E x \in ListedInserts :
          InsertWithin("t", x.sources, MaxRowId) /\ Insert("t", x.columns, x.sources)
    \/ Delete("t", <<PkEq(1)>>)
    \/ Truncate("t")
    \/ Drop("t")

SpecColumns == Init /\ [][NextColumns]_vars

(***************************************************************************)
(* Inserts whose literals do not all have their column's type.             *)
(***************************************************************************)
MismatchSources ==
    {<<<<LInt(1), LStr("a")>>>>,
     <<<<LInt(1), LStr("a")>>, <<LInt(2), LStr("b")>>>>,
     <<<<LStr("a"), LStr("a")>>>>,
     <<<<LInt(1), LInt(2)>>>>,
     <<<<LInt(1), LStr("a")>>, <<LStr("a"), LStr("b")>>>>,
     <<<<LInt(1), LStr("a")>>, <<LInt(2), LInt(2)>>>>,
     <<<<LInt(1), LStr("a")>>, <<LInt(1), LInt(1)>>, <<LInt(2), LStr("b")>>>>}

NextMismatch ==
    \/ CanCreate /\ CreateTable("t", SchemaIdName)
    \/ \E d \in MismatchSources :
          InsertWithin("t", d, MaxRowId) /\ Insert("t", <<>>, d)
    \/ \E v \in {1, 2} : Delete("t", <<PkEq(v)>>)
    \/ Truncate("t")
    \/ Drop("t")

SpecMismatch == Init /\ [][NextMismatch]_vars

(***************************************************************************)
(* WHERE clauses of every shape under UPDATE and DELETE, with subscribers  *)
(* listening on the table.                                                 *)
(***************************************************************************)
WhereClauses ==
    {PkEq(1),
     ELit(LNull),
     EIsTrue(ELit(LBool(TRUE))),
     EIsFalse(ELit(LBool(FALSE))),
     EIdent("id"),
     EIdent("name"),
     ELit(LInt(1)),
     EBinary("Plus", EIdent("id"), ELit(LInt(1)))}

WhereSources == {<<<<LInt(1), LStr("a")>>>>, <<<<LStr("a")>>>>}

NextSelection ==
    \/ Subscribe("t")
    \/ \E c \in {SchemaIdName, SchemaName} : CanCreate /\ CreateTable("t", c)
    \/ \E d \in WhereSources :
          InsertWithin("t", d, SmallMaxRowId) /\ Insert("t", <<>>, d)
    \/ \E w \in WhereClauses : Update("t", ("name" :> LStr("b")), <<w>>)
    \/ Update("t", ("name" :> LStr("b")), <<>>)
    \/ \E w \in WhereClauses : Delete("t", <<w>>)
    \/ Drop("t")

SpecSelection == Init /\ [][NextSelection]_vars

(***************************************************************************)
(* Statements that name a table the database may not hold.                 *)
(***************************************************************************)
AbsentNames == {"t", "T", "u"}

\* selection: None, a comparison, NULL, and one whose evaluation panics
AbsentSelections ==
    {<<>>, <<PkEq(1)>>, <<ELit(LNull)>>, <<EUnary("Not", ELit(LInt(1)))>>}

NextAbsent ==
    \/ \E n \in {"t", "u"} : Subscribe(n)
    \/ \E n \in {"t", "T"} : CanCreate /\ CreateTable(n, SchemaIdName)
    \/ \E n \in AbsentNames :
          InsertWithin(n, OneRow, SmallMaxRowId) /\ Insert(n, <<>>, OneRow)
    \/ \E n \in AbsentNames : Truncate(n)
    \/ \E n \in AbsentNames, w \in AbsentSelections :
          Update(n, ("name" :> LStr("b")), w)
    \/ \E n \in AbsentNames, w \in AbsentSelections : Delete(n, w)
    \/ \E n \in AbsentNames : Drop(n)

SpecAbsent == Init /\ [][NextAbsent]_vars

\* projections: a literal, a column, the wildcard
AbsentProjections == {<<ELit(LInt(1))>>, <<EIdent("id")>>, <<EWildcard>>}

\* SELECT ... FROM a name the database may not hold
NextAbsentSelect ==
    \/ \E n \in {"t", "T"} : CanCreate /\ CreateTable(n, SchemaIdName)
    \/ \E n \in AbsentNames, d \in InsDelSources :
          InsertWithin(n, d, MaxRowId) /\ Insert(n, <<>>, d)
    \/ \E n \in AbsentNames, x \in AbsentProjections, w \in {<<ENone>>, <<PkEq(1)>>} :
          Select(<<n>>, x, w)
    \/ \E n \in AbsentNames : Truncate(n)
    \/ \E n \in AbsentNames : Drop(n)

SpecAbsentSelect == Init /\ [][NextAbsentSelect]_vars

(***************************************************************************)
(* SELECT with projections of one or several columns under selections of   *)
(* no, one or two Bool columns.                                            *)
(***************************************************************************)
FilterProjections ==
    {<<EWildcard>>, <<EIdent("name")>>, <<EIdent("name"), EIdent("id")>>, <<ELit(LInt(1))>>}

FilterSelections ==
    {<<ENone>>, <<ELit(LNull)>>, <<PkEq(1)>>, <<ELit(LBool(TRUE))>>,
     <<PkEq(1), Cmp("Gt", 1)>>}

NextFilter ==
    \/ CanCreate /\ CreateTable("t", SchemaIdName)
    \/ \E d \in InsDelSources :
          InsertWithin("t", d, MaxRowId) /\ Insert("t", <<>>, d)
    \/ \E v \in {1, 2} : Delete("t", <<PkEq(v)>>)
    \/ \E x \in FilterProjections, w \in FilterSelections : Select(<<"t">>, x, w)

SpecFilter == Init /\ [][NextFilter]_vars

(***************************************************************************)
(* Views of columns that are sparse, hold empty strings, or are none.      *)
(***************************************************************************)
ViewSources ==
    {<<<<LInt(i), LStr(x)>>>> : i \in {1, 2}, x \in {"", "a"}}
    \cup {<<<<LInt(1), LStr("a")>>, <<LInt(2), LStr("")>>>>}

ViewProjections ==
    {<<EWildcard>>, <<EIdent("name")>>, <<EIdent("name"), EIdent("id")>>, <<ELit(LNull)>>}

ViewSelections == {<<ENone>>, <<PkEq(1)>>, <<PkEq(2)>>}

NextView ==
    \/ CanCreate /\ CreateTable("t", SchemaIdName)
    \/ \E d \in ViewSources :
          InsertWithin("t", d, MaxRowId) /\ Insert("t", <<>>, d)
    \/ \E v \in {1, 2} : Delete("t", <<PkEq(v)>>)
    \/ \E x \in ViewProjections, w \in ViewSelections : Select(<<"t">>, x, w)

SpecView == Init /\ [][NextView]_vars

(***************************************************************************)
(* Properties.                                                             *)
(***************************************************************************)
\* the RowIds that have a cell in some column of table t
RowsOf(t) == UNION {DOMAIN t.columns[c].data.map : c \in DOMAIN t.columns}

\* the index of the first primary-key column of t
PkIndex(t) == SetMin({c \in DOMAIN t.columns : t.columns[c].header.is_pk})

\* the RowIds of t whose primary-key cell equals v
RowsWithPk(t, v) ==
    {r \in DOMAIN t.columns[PkIndex(t)].data.map : t.columns[PkIndex(t)].data.map[r] = v}

\* C1: for every table, the RowIds that Insert has handed out over the
\* table's lifetime are strictly increasing in the order they were handed
\* out, whatever deletes, updates and truncates came in between.
C1_RowIdsStrictlyIncreasing ==
    \A n \in DOMAIN assigned :
        \A i, j \in DOMAIN assigned[n] : i < j => assigned[n][i] < assigned[n][j]

\* an insert has just given RowId 2 to a row of a table whose rows 0 and 1
\* had been removed before
C1_Witness ==
    /\ result.stmt = "Insert" /\ result.st = "ok"
    /\ \E i \in DOMAIN tables :
          /\ assigned[tables[i].name] = <<0, 1, 2>>
          /\ RowsOf(tables[i]) = {2}

\* C2: on a table with an Int32 primary key, DELETE ... WHERE pk = v removes
\* every row whose primary-key cell equals v from every column and leaves the
\* cells of every other row as they were.
C2_DeleteByPkRemovesMatchingRows ==
    [][\A v \in {1, 2} :
          (Delete("t", <<PkEq(v)>>) /\ FindTable(tables, "t") # 0) =>
             LET t == tables[FindTable(tables, "t")]
                 t2 == tables'[FindTable(tables, "t")]
                 gone == RowsWithPk(t, v)
             IN  \A c \in DOMAIN t.columns :
                    /\ DOMAIN t2.columns[c].data.map = (DOMAIN t.columns[c].data.map) \ gone
                    /\ \A r \in DOMAIN t2.columns[c].data.map :
                          t2.columns[c].data.map[r] = t.columns[c].data.map[r]]_vars

\* the assignments of a name the columns of t by their declared names
NamesDeclaredColumns(a, t) ==
    \A k \in DOMAIN a : \E c \in DOMAIN t.columns : t.columns[c].header.name = k

\* C3: a successful UPDATE ... SET a WHERE id = v sets the cell of every
\* assigned non-primary-key column at every RowId whose id equals v to the
\* assigned literal, and leaves every other cell as it was.
C3_UpdateSetsSelectedCells ==
    [][\A a \in StoreAssignments, v \in {1, 2} :
          (/\ Update("t", a, <<PkEq(v)>>)
           /\ result'.st = "ok"
           /\ NamesDeclaredColumns(a, tables[FindTable(tables, "t")])) =>
             LET t == tables[FindTable(tables, "t")]
                 t2 == tables'[FindTable(tables, "t")]
                 hit == RowsWithPk(t, v)
             IN  \A c \in DOMAIN t.columns :
                    LET name == t.columns[c].header.name
                        old == t.columns[c].data.map
                    IN  IF name \in DOMAIN a /\ ~t.columns[c].header.is_pk
                        THEN t2.columns[c].data.map =
                                [r \in (DOMAIN old) \cup hit |->
                                    IF r \in hit THEN LitVal(a[name]) ELSE old[r]]
                        ELSE t2.columns[c].data.map = old]_vars

\* what SELECT * should show of t: a row for each of the given RowIds, in
\* ascending order, each cell displayed (absent cells as the empty string)
Display(t, c, r) ==
    IF r \in DOMAIN t.columns[c].data.map
    THEN ValueToString(t.columns[c].data.kind, t.columns[c].data.map[r])
    ELSE ""

ExpectedView(t, rowids) ==
    [columns |-> [c \in DOMAIN t.columns |-> t.columns[c].header.name],
     rows |-> [n \in DOMAIN SortedSeq(rowids) |->
                 [c \in DOMAIN t.columns |-> Display(t, c, SortedSeq(rowids)[n])]]]

\* the table of the scenario: rows (1,'a') and (2,'b') in a fresh table t
ScenarioTable(t) ==
    /\ Len(t.columns) = 2
    /\ t.columns[1].header.name = "id" /\ t.columns[2].header.name = "name"
    /\ t.columns[1].data = ColumnData("Int", (0 :> 1 @@ 1 :> 2))
    /\ t.columns[2].data = ColumnData("Str", (0 :> "a" @@ 1 :> "b"))

ScenarioView == [columns |-> <<"id", "name">>, rows |-> <<<<"1", "a">>, <<"2", "b">>>>]

\* C4: SELECT * without WHERE returns the declared column names
\* and one row for every stored row, stringified, in ascending RowId order.
C4_SelectShowsEveryStoredRow ==
    [][(Select(<<"t">>, <<EWildcard>>, <<ENone>>) /\ FindTable(tables, "t") # 0) =>
          LET t == tables[FindTable(tables, "t")]
          IN  /\ result'.st = "view"
              /\ result'.view = ExpectedView(t, RowsOf(t))
              /\ ScenarioTable(t) => result'.view = ScenarioView]_vars

\* the selection id = v is true on every row of t: t has an Int32 column id
\* and every RowId that has a cell has the id cell v
TrueOnEveryRow(t, v) ==
    \E c \in DOMAIN t.columns :
        /\ t.columns[c].header.name = "id"
        /\ \A r \in RowsOf(t) :
              r \in DOMAIN t.columns[c].data.map /\ t.columns[c].data.map[r] = v

\* the step deletes all rows of t: TRUNCATE, DELETE without WHERE, or DELETE
\* with a WHERE that is true on every row
DeletesAllRows ==
    \/ Truncate("t")
    \/ Delete("t", <<>>)
    \/ \E v \in {1, 2} :
          /\ Delete("T", <<PkEq(v)>>)
          /\ TrueOnEveryRow(tables[FindTable(tables, "t")], v)

\* C5: after TRUNCATE and after a DELETE of all rows (without WHERE, or with
\* a WHERE that is true on every row) the table is in the same state for
\* SELECT, one that shows zero rows (every column empty, headers as before),
\* and the RowId the next insert will hand out is greater than every RowId
\* handed out before.
C5_DeleteAllLikeTruncate ==
    [][(DeletesAllRows /\ FindTable(tables, "t") # 0) =>
          LET t == tables[FindTable(tables, "t")]
              t2 == tables'[FindTable(tables, "t")]
          IN  /\ \A c \in DOMAIN t.columns :
                    /\ t2.columns[c].header = t.columns[c].header
                    /\ DOMAIN t2.columns[c].data.map = {}
              /\ ViewNew(TableOutColumns(t2)).rows = <<>>
              /\ \A n \in DOMAIN assigned[t.name] :
                    next_row_id(t2) > assigned[t.name][n]]_vars

\* C10: an UPDATE whose SET list names the primary-key column fails with
\* InvalidOperation.
C10_PkUpdateIsInvalidOperation ==
    [][\A a \in StoreAssignments, w \in StoreSelections :
          (/\ Update("t", a, <<w>>)
           /\ FindTable(tables, "t") # 0
           /\ LET t == tables[FindTable(tables, "t")]
              IN  /\ NamesDeclaredColumns(a, t)
                  /\ t.columns[PkIndex(t)].header.name \in DOMAIN a) =>
             (result'.st = "err" /\ result'.err = "InvalidOperation")]_vars

\* C6: a mutating statement never waits in a notification send, whatever
\* the subscribers do: the database thread is never blocked on a subscriber's
\* full channel.
C6_MutationNeverBlocks == pc # "blocked"

\* C7: when a successful Insert, Update, Delete or Truncate on table t has
\* returned, a message has been offered to exactly the subscribers that the
\* registry holds for t, each once, and to no subscriber of another table.
C7_EverySubscriberOffered ==
    (/\ pc = "idle"
     /\ result.st = "ok"
     /\ result.stmt \in {"Insert", "Update", "Delete", "Truncate"}) =>
        offered = (IF "t" \in DOMAIN ws_map THEN ws_map["t"] ELSE <<>>)

\* C8: CREATE TABLE without a primary-key column leaves the table list as it
\* was, and every table of the database has a primary-key column.
C8_NoTableWithoutPrimaryKey ==
    /\ [][\A n \in CatalogNames : CreateTable(n, SchemaNoPk) => tables' = tables]_vars
    /\ [](\A i \in DOMAIN tables :
            \E c \in DOMAIN tables[i].columns : tables[i].columns[c].header.is_pk)

\* CREATE TABLE without a primary key has just been refused (the constructor
\* panicked) in a database that holds a table
C8_Witness ==
    /\ result.stmt = "CreateTable" /\ result.st = "panic"
    /\ tables # <<>>

\* C9: no two tables have names that are equal ignoring case; CREATE TABLE
\* under a name that matches an existing table ignoring case fails with
\* TableAlreadyExists and changes neither the table list nor any table.
C9_TableNamesUnique ==
    /\ [](\A i, j \in DOMAIN tables :
            to_lowercase(tables[i].name) = to_lowercase(tables[j].name) => i = j)
    /\ [][\A n \in CatalogNames, c \in {SchemaIdName, SchemaNoPk} :
            (/\ CreateTable(n, c)
             /\ \E i \in DOMAIN tables : to_lowercase(tables[i].name) = to_lowercase(n)) =>
               (/\ result' = ResErr("CreateTable", "TableAlreadyExists")
                /\ tables' = tables
                /\ assigned' = assigned)]_vars

\* CREATE TABLE has just failed with TableAlreadyExists on a table that holds
\* a row
C9_Witness ==
    /\ result = ResErr("CreateTable", "TableAlreadyExists")
    /\ \E i \in DOMAIN tables : RowsOf(tables[i]) # {}

\* C11: execute always returns, with a result or a typed error; the only
\* statement that may end in a panic is a CreateTable without primary key.
C11_ExecuteNeverAborts == result.st = "panic" => result.stmt = "CreateTable"

C13_PkIndexHoldsStoredKeys ==
    \A i \in DOMAIN tables :
        LET pk == tables[i].columns[PkIndex(tables[i])].data.map
        IN  tables[i].pk_map = {<<pk[r], r>> : r \in DOMAIN pk}

\* C14: an insert with a column-name list succeeds and writes the i-th
\* literal of each row to the column named by the i-th listed name, at the
\* RowId of that row, whatever the order of the listed names.
C14_ListedInsertIsPositional ==
    [][\A x \in ListedInserts :
          (Insert("t", x.columns, x.sources) /\ FindTable(tables, "t") # 0) =>
             LET t == tables[FindTable(tables, "t")]
                 t2 == tables'[FindTable(tables, "t")]
             IN  /\ result'.st = "ok"
                 /\ \A k \in DOMAIN x.sources, i \in DOMAIN x.columns :
                       LET c == col_from_name(t, x.columns[i])
                           r == next_row_id(t) + k - 1
                       IN  /\ r \in DOMAIN t2.columns[c].data.map
                           /\ t2.columns[c].data.map[r] = LitVal(x.sources[k][i])]_vars

\* the table at the end of the scenario: rows (1,'a') and (2,'b') were
\* inserted in a fresh table t, name was updated where id = 1, and the row
\* with id = 2 was deleted
ScenarioEnd(t) ==
    /\ Len(t.columns) = 2
    /\ t.columns[1].header.name = "id" /\ t.columns[2].header.name = "name"
    /\ t.columns[1].data = ColumnData("Int", (0 :> 1))
    /\ t.columns[2].data = ColumnData("Str", (0 :> "b"))
    /\ assigned[t.name] = <<0, 1>>

\* C15 as stated: at the end of the scenario the next insert gives RowId 3
\* to its first row.
C15_NextInsertGetsRowId3 ==
    [][\A d \in StoreSources :
          (/\ Insert("t", <<>>, d)
           /\ FindTable(tables, "t") # 0
           /\ ScenarioEnd(tables[FindTable(tables, "t")])) =>
             assigned'["T"][3] = 3]_vars

\* C15: at the end of the scenario the next insert gives RowId 2 to its
\* first row: the two rows of the scenario took the RowIds 0 and 1, and the
\* update and the delete hand out none and give none back.
C15_NextInsertGetsRowId2 ==
    [][\A d \in StoreSources :
          (/\ Insert("t", <<>>, d)
           /\ FindTable(tables, "t") # 0
           /\ ScenarioEnd(tables[FindTable(tables, "t")])) =>
             assigned'["T"][3] = 2]_vars

\* the insert that follows the scenario has just stored its row
C15_Witness ==
    /\ result.stmt = "Insert" /\ result.st = "ok"
    /\ \E i \in DOMAIN tables :
          /\ assigned[tables[i].name] = <<0, 1, 2>>
          /\ Len(tables[i].columns) = 2
          /\ tables[i].columns[1].header.name = "id"
          /\ DOMAIN tables[i].columns[1].data.map = {0, 2}
          /\ tables[i].columns[1].data.map[0] = 1
          /\ DOMAIN tables[i].columns[2].data.map = {0, 2}
          /\ tables[i].columns[2].data.map[0] = "b"

\* the usual meaning of the comparison operators on integers
Usual(op, a, b) ==
    CASE op = "Eq" -> a = b
      [] op = "NotEq" -> a # b
      [] op = "Lt" -> a < b
      [] op = "Gt" -> a > b
      [] op = "LtEq" -> a <= b
      [] op = "GtEq" -> a >= b

\* the id column of t has a cell at every RowId 0..n, for some n
DenseIds(t) ==
    LET ks == DOMAIN t.columns[1].data.map
    IN  ks # {} /\ ks = 0..SetMax(ks)

\* C16: a SELECT of id <op> c on an id column with cells at RowIds 0..n
\* evaluates to one Bool column named id that holds, at every RowId r of the
\* id column, the truth value of id[r] <op> c in the usual meaning of <op>.
C16_ComparisonHasUsualMeaning ==
    [][\A op \in ComparisonOps, c \in {1, 2} :
          (/\ Select(<<"t">>, <<Cmp(op, c)>>, <<ENone>>)
           /\ FindTable(tables, "t") # 0
           /\ DenseIds(tables[FindTable(tables, "t")])) =>
             LET t == tables[FindTable(tables, "t")]
                 id == t.columns[1].data.map
             IN  /\ result'.st = "view"
                 /\ Eval(<<t>>, Cmp(op, c)) =
                       EvalOk(<<OutColumn("id", ColumnData("Bool",
                           [r \in DOMAIN id |-> Usual(op, id[r], c)]))>>)]_vars

\* the right operand column R of id <op> right: the id column itself, the
\* literal broadcast to 0..max key of the left column under a comparison,
\* the single cell at RowId 0 under arithmetic
RightOperand(t, x) ==
    IF x.right.e = "Ident" THEN t.columns[1].data.map
    ELSE IF x.operator \in ComparisonOps
         THEN [r \in 0..DataLen(t.columns[1].data) |-> x.right.lit.i]
         ELSE (0 :> x.right.lit.i)

\* C17: the result of a binary operator on the columns L and R has the key
\* set keys(L) \cap keys(R), and its value at each RowId is computed from
\* the values of L and R at that RowId, also when L is sparse.
C17_BinaryIntersectsKeys ==
    [][\A x \in {Cmp("Eq", 1), Cmp("Eq", 2),
                  EBinary("Plus", EIdent("id"), EIdent("id")),
                  EBinary("Plus", EIdent("id"), ELit(LInt(1)))} :
          (/\ Select(<<"t">>, <<x>>, <<ENone>>)
           /\ FindTable(tables, "t") # 0) =>
             LET t == tables[FindTable(tables, "t")]
                 L == t.columns[1].data.map
                 R == RightOperand(t, x)
             IN  Eval(<<t>>, x) =
                    EvalOk(<<OutColumn("id",
                        ColumnData(IF x.operator = "Eq" THEN "Bool" ELSE "Int",
                            [r \in (DOMAIN L) \cap (DOMAIN R) |->
                                IF x.operator = "Eq" THEN L[r] = R[r]
                                ELSE L[r] + R[r]]))>>)]_vars

\* C18: an UPDATE that fails has changed no cell of any column.
C18_FailedUpdateChangesNothing ==
    [][\A a \in StoreAssignments, w \in StoreSelections :
          (/\ Update("t", a, <<w>>)
           /\ FindTable(tables, "t") # 0
           /\ result'.st = "err") =>
             \A c \in DOMAIN tables[FindTable(tables, "t")].columns :
                tables'[FindTable(tables, "t")].columns[c].data =
                   tables[FindTable(tables, "t")].columns[c].data]_vars

\* the positions (row k, literal j) of an insert's literals whose type is not
\* the type of the j-th column
Mismatches(t, d) ==
    {p \in (DOMAIN d) \X (DOMAIN t.columns) :
        p[2] <= Len(d[p[1]]) /\ d[p[1]][p[2]].kind # t.columns[p[2]].data.kind}

\* position p comes before position q in the order the cells are written
WrittenBefore(p, q) == p[1] < q[1] \/ (p[1] = q[1] /\ p[2] < q[2])

FirstMismatch(t, d) ==
    CHOOSE p \in Mismatches(t, d) : \A q \in Mismatches(t, d) : q = p \/ WrittenBefore(p, q)

\* C19: an insert whose first ill-typed literal is literal j of row k fails
\* with InvalidQuery; the cells before (k, j) are stored, no cell from (k, j)
\* on is written, the cells stored before the statement stay; the RowId of
\* row k has been handed out, and every successful insert hands out RowIds
\* greater than all RowIds handed out before it.
C19_FailedInsertKeepsPrefix ==
    [][\A d \in MismatchSources :
          (Insert("t", <<>>, d) /\ FindTable(tables, "t") # 0) =>
             LET i == FindTable(tables, "t")
                 t == tables[i]
                 rid == next_row_id(t)
             IN  IF Mismatches(t, d) = {}
                 THEN /\ result'.st = "ok"
                      /\ \A k \in DOMAIN d : \A o \in Range(assigned[t.name]) :
                             rid + k - 1 > o
                      /\ assigned'[t.name] =
                            assigned[t.name] \o [k \in DOMAIN d |-> rid + k - 1]
                 ELSE LET p == FirstMismatch(t, d)
                      IN  /\ result' = ResErr("Insert", "InvalidQuery")
                          /\ \A k \in DOMAIN d, j \in DOMAIN t.columns :
                                IF WrittenBefore(<<k, j>>, p)
                                THEN /\ rid + k - 1 \in DOMAIN tables'[i].columns[j].data.map
                                     /\ tables'[i].columns[j].data.map[rid + k - 1] =
                                           LitVal(d[k][j])
                                ELSE rid + k - 1 \notin DOMAIN tables'[i].columns[j].data.map
                          /\ \A j \in DOMAIN t.columns :
                                \A r \in DOMAIN t.columns[j].data.map :
                                   /\ r \in DOMAIN tables'[i].columns[j].data.map
                                   /\ tables'[i].columns[j].data.map[r] =
                                         t.columns[j].data.map[r]
                          /\ assigned'[t.name] =
                                assigned[t.name] \o [k \in 1..p[1] |-> rid + k - 1]
                          /\ next_row_id(tables'[i]) > rid + p[1] - 1]_vars

\* an insert has just succeeded with RowId 2 after an insert that failed at
\* the second literal of the row it gave RowId 1
C19_Witness ==
    /\ result = ResOk("Insert")
    /\ \E i \in DOMAIN tables :
          /\ Len(tables[i].columns) = 2
          /\ DOMAIN tables[i].columns[1].data.map = {0, 1, 2}
          /\ DOMAIN tables[i].columns[2].data.map = {0, 2}
          /\ assigned[tables[i].name] = <<0, 1, 2>>

\* the selection evaluates, on table t, to something other than one Bool
\* column: to no column, to several columns, or to one column of another type
NotOneBoolColumn(t, w) ==
    LET r == Eval(<<t>>, w)
    IN  /\ r.st = "ok"
        /\ \/ Len(r.cols) # 1
           \/ r.cols[1].data.kind # "Bool"

\* the statement ended with error kind and neither changed a table nor sent
\* or queued a notification
RefusedWith(stmt, kind) ==
    /\ result' = ResErr(stmt, kind)
    /\ tables' = tables
    /\ chan' = chan
    /\ offered' = <<>>
    /\ pending' = pending
    /\ pc' = pc

\* C20: an UPDATE or a DELETE whose WHERE clause evaluates to no column, to
\* more than one column or to one column that is not Bool fails with
\* InvalidOperation, and an UPDATE without WHERE clause fails with
\* Unsupported; in both cases the table is unchanged and nothing is sent.
C20_SelectionMustBeOneBoolColumn ==
    [][LET i == FindTable(tables, "t")
       IN  i # 0 =>
             /\ \A w \in WhereClauses :
                   NotOneBoolColumn(tables[i], w) =>
                      /\ Update("t", ("name" :> LStr("b")), <<w>>) =>
                            RefusedWith("Update", "InvalidOperation")
                      /\ Delete("t", <<w>>) => RefusedWith("Delete", "InvalidOperation")
             /\ Update("t", ("name" :> LStr("b")), <<>>) =>
                   RefusedWith("Update", "Unsupported")]_vars

\* a DELETE has just been refused with InvalidOperation on a table that has
\* a row and a live subscriber
C20_Witness ==
    /\ result = ResErr("Delete", "InvalidOperation")
    /\ \E i \in DOMAIN tables :
          /\ RowsOf(tables[i]) # {}
          /\ Subscribers(ws_map, tables[i].name) # <<>>
          /\ \E h \in Range(Subscribers(ws_map, tables[i].name)) : h \in rxAlive

\* no table of the database has a name equal to n up to letter case
Absent(n) == \A i \in DOMAIN tables : to_lowercase(tables[i].name) # to_lowercase(n)

\* C21: Truncate, Insert, Update and Delete on a name that matches no table
\* fail with TableNotFound, change no table and send nothing, whatever the
\* rest of the statement is (no WHERE clause, a WHERE clause of no column, a
\* WHERE clause whose evaluation would abort).
C21_AbsentTableIsNotFound ==
    [][\A n \in AbsentNames :
          Absent(n) =>
             /\ Truncate(n) => RefusedWith("Truncate", "TableNotFound")
             /\ Insert(n, <<>>, OneRow) => RefusedWith("Insert", "TableNotFound")
             /\ \A w \in AbsentSelections :
                   /\ Update(n, ("name" :> LStr("b")), w) =>
                         RefusedWith("Update", "TableNotFound")
                   /\ Delete(n, w) => RefusedWith("Delete", "TableNotFound")]_vars

\* an UPDATE on a missing table has just been refused while another table
\* exists and a subscriber is registered under the missing name
C21_Witness ==
    /\ result = ResErr("Update", "TableNotFound")
    /\ Len(tables) >= 1
    /\ "u" \in DOMAIN ws_map
    /\ \E h \in Range(ws_map["u"]) : h \in rxAlive

\* the table has no cell and has never handed out a RowId
Fresh(t) ==
    /\ \A c \in DOMAIN t.columns :
          t.columns[c].data.map = <<>> /\ t.columns[c].header.last_row_id = None
    /\ next_row_id(t) = 0

\* C22: DROP n succeeds; the tables whose name differs from n beyond letter
\* case stay as they were and in their order, the table whose name matches
\* is gone, and nothing changes when no name matches.  A table created under
\* any name, a dropped one included, starts with empty columns and hands out
\* RowId 0 first.
C22_DropRemovesOnlyTheNamedTable ==
    [][\A n \in CatalogNames :
          /\ Drop(n) =>
                /\ result' = ResOk("Drop")
                /\ Absent(n) => tables' = tables
                /\ \A i \in DOMAIN tables' : to_lowercase(tables'[i].name) # to_lowercase(n)
                /\ \A i \in DOMAIN tables :
                      to_lowercase(tables[i].name) # to_lowercase(n) =>
                         \E j \in DOMAIN tables' : tables'[j] = tables[i]
                /\ \A i, j \in DOMAIN tables' :
                      i < j => \E k, l \in DOMAIN tables :
                                  k < l /\ tables[k] = tables'[i] /\ tables[l] = tables'[j]
                /\ Len(tables') >= Len(tables) - 1
          /\ \A c \in {SchemaIdName, SchemaNoPk} :
                (CreateTable(n, c) /\ result'.st = "ok") =>
                   /\ Len(tables') = Len(tables) + 1
                   /\ Fresh(tables'[Len(tables')])
                   /\ to_lowercase(tables'[Len(tables')].name) = to_lowercase(n)]_vars

\* a DROP has just left a single table, which holds a row
C22_Witness ==
    /\ result = ResOk("Drop")
    /\ Len(tables) = 1
    /\ RowsOf(tables[1]) # {}

\* column p with only the cells at the RowIds where the Bool column b is true
Restricted(p, b) ==
    OutColumn(p.name,
              ColumnData(p.data.kind,
                         [k \in {x \in DOMAIN p.data.map :
                                    x \in DOMAIN b.data.map /\ b.data.map[x] = TRUE}
                             |-> p.data.map[k]]))

\* the output columns for projected columns P and selection columns S
FilteredOutput(P, S) ==
    IF S = <<>> THEN P
    ELSE [n \in 1..(Len(P) * Len(S)) |->
             Restricted(P[((n - 1) \div Len(S)) + 1], S[((n - 1) % Len(S)) + 1])]

\* C23: a SELECT whose projection evaluates to the columns P and whose
\* selection evaluates to Bool columns S returns the view of Len(P) * Len(S)
\* columns, the pairs (p, s) in projection-major order, each p restricted to
\* the RowIds where s is true; with no selection column it returns the view
\* of P as it is.
C23_SelectFiltersEachPair ==
    [][\A x \in FilterProjections, w \in FilterSelections :
          LET i == FindTable(tables, "t")
              P == EvalAll(<<tables[i]>>, x, FALSE, <<>>)
              S == EvalAll(<<tables[i]>>, w, TRUE, <<>>)
          IN  (/\ i # 0
               /\ Select(<<"t">>, x, w)
               /\ P.st = "ok" /\ S.st = "ok"
               /\ \A k \in DOMAIN S.cols : S.cols[k].data.kind = "Bool") =>
                 /\ result'.st = "view"
                 /\ Len(result'.view.columns) =
                       IF S.cols = <<>> THEN Len(P.cols) ELSE Len(P.cols) * Len(S.cols)
                 /\ result'.view = ViewNew(FilteredOutput(P.cols, S.cols))]_vars

\* a SELECT of two columns under two selection columns has just returned
\* four columns and two rows
C23_Witness ==
    /\ result.stmt = "Select" /\ result.st = "view"
    /\ result.view.columns = <<"name", "name", "id", "id">>
    /\ result.view.rows = <<<<"a", "", "1", "">>, <<"", "b", "", "2">>>>

\* what column col shows at RowId r: its value as a string, or the empty
\* string where it has no cell
Cell(col, r) ==
    IF r \in DOMAIN col.data.map
    THEN ValueToString(col.data.kind, col.data.map[r])
    ELSE ""

\* the RowIds stored in some column at which some column shows a non-empty
\* string
ShownRowIds(cols) ==
    {r \in UNION {DOMAIN cols[i].data.map : i \in DOMAIN cols} :
        \E i \in DOMAIN cols : Cell(cols[i], r) # ""}

\* the columns a SELECT hands to View::new
ColumnsToShow(t, x, w) ==
    LET P == EvalAll(<<t>>, x, FALSE, <<>>)
        S == EvalAll(<<t>>, w, TRUE, <<>>)
    IN  IF S.cols = <<>> THEN P.cols ELSE SelectFilter(P.cols, S.cols)

\* C24: the view of a list of columns has the column names as headers, in
\* order, and one row per RowId at which some column shows a non-empty
\* string, in ascending RowId order; a row has one cell per column, empty
\* where the column has no cell; no column, or columns that show nothing,
\* give no row.
C24_ViewShowsNonEmptyRows ==
    [][\A x \in ViewProjections, w \in ViewSelections :
          (/\ FindTable(tables, "t") # 0
           /\ Select(<<"t">>, x, w)
           /\ result'.st = "view") =>
             LET cols == ColumnsToShow(tables[FindTable(tables, "t")], x, w)
                 v == result'.view
                 ids == SortedSeq(ShownRowIds(cols))
             IN  /\ v.columns = [i \in DOMAIN cols |-> cols[i].name]
                 /\ Len(v.rows) = Cardinality(ShownRowIds(cols))
                 /\ \A n \in DOMAIN v.rows :
                       v.rows[n] = [i \in DOMAIN cols |-> Cell(cols[i], ids[n])]
                 /\ (cols = <<>> \/ ShownRowIds(cols) = {}) => v.rows = <<>>]_vars

\* a SELECT has just returned one row of a table that stores three, the
\* other two being only empty strings or filtered out
C24_Witness ==
    /\ result.stmt = "Select" /\ result.st = "view"
    /\ result.view.columns = <<"name">>
    /\ result.view.rows = <<<<"a">>>>
    /\ \E i \in DOMAIN tables : Cardinality(RowsOf(tables[i])) = 3

\* C25: in every table, every RowId that has a cell in some column has a
\* cell in each primary-key column.
C25_EveryRowHasPrimaryKey ==
    \A i \in DOMAIN tables :
        \A c \in DOMAIN tables[i].columns :
            tables[i].columns[c].header.is_pk =>
                RowsOf(tables[i]) \subseteq DOMAIN tables[i].columns[c].data.map

\* C26: a successful UPDATE leaves the set of RowIds of each primary-key
\* column as it was and gives no column a cell at a RowId at which the table
\* had no cell before.
C26_UpdateTouchesExistingRowsOnly ==
    [][\A a \in StoreAssignments, w \in StoreSelections :
          (/\ FindTable(tables, "t") # 0
           /\ Update("t", a, <<w>>)
           /\ result'.st = "ok") =>
             LET t == tables[FindTable(tables, "t")]
                 t2 == tables'[FindTable(tables, "t")]
             IN  /\ RowsOf(t2) \subseteq RowsOf(t)
                 /\ \A c \in DOMAIN t.columns :
                       t.columns[c].header.is_pk =>
                          DOMAIN t2.columns[c].data.map = DOMAIN t.columns[c].data.map]_vars

\* C27: in every table, every RowId that has a cell is at most the last
\* RowId the table has assigned, so the next RowId an insert assigns has no
\* cell yet.
C27_StoredRowIdsWereAssigned ==
    \A i \in DOMAIN tables :
        /\ \A r \in RowsOf(tables[i]) : r <= last_row_id(tables[i])
        /\ next_row_id(tables[i]) \notin RowsOf(tables[i])

\* C28: a SELECT whose FROM names no table of the database fails with
\* TableNotFound, whatever it projects and selects.
C28_SelectFromAbsentTableIsNotFound ==
    [][\A n \in AbsentNames, x \in AbsentProjections, w \in {<<ENone>>, <<PkEq(1)>>} :
          (Absent(n) /\ Select(<<n>>, x, w)) =>
             RefusedWith("Select", "TableNotFound")]_vars

\* a statement of the notification specification that changes table t and
\* notifies
NotifyingStatement ==
    \/ Insert("t", <<>>, OneRow)
    \/ Update("t", ("name" :> LStr("a")), <<PkEq(1)>>)
    \/ Delete("t", <<PkEq(1)>>)
    \/ Truncate("t")

\* C29: when a statement that changes table t has succeeded and returned,
\* every handle whose registration for t was waiting on the registration
\* channel when the statement started has been offered the notification.
C29_PendingRegistrationsAreServed ==
    [][(NotifyingStatement /\ result'.st = "ok" /\ pc' = "idle") =>
          \A k \in DOMAIN receiver :
              receiver[k].table = "t" => receiver[k].tx \in Range(offered')]_vars

\* C30: when an Insert or a Truncate on table t has succeeded and returned,
\* every handle the registry holds under a name equal to t up to letter case
\* has been offered the notification.
C30_RegistrationMatchesAnyCase ==
    [][\A n \in CaseNames :
          (/\ Insert(n, <<>>, OneRow) \/ Truncate(n)
           /\ result'.st = "ok"
           /\ pc' = "idle") =>
             \A k \in DOMAIN ws_map' :
                 to_lowercase(k) = to_lowercase(n) =>
                    \A h \in Range(ws_map'[k]) : h \in Range(offered')]_vars

====
